---- MODULE Spec2Model ----
(***************************************************************************)
(* Glyph atlas management and SDF-generation orchestration of              *)
(* troika-three-text (packages/troika-three-text/src/TextBuilder.js).      *)
(*                                                                         *)
(* The JavaScript event loop runs one handler at a time, so every action   *)
(* below is one whole handler: a call of an exported function, the `then`  *)
(* callback of the typesetter, the completion of one SDF task (with the    *)
(* merge and the callback when it is the request's last), or the firing of *)
(* an idle timer.                                                          *)
(*                                                                         *)
(* Sizes are scaled down: the defaults sdfGlyphSize 64 and textureWidth    *)
(* 2048 become 2 and 4; both stay powers of two with sdfGlyphSize no       *)
(* larger than textureWidth, as the documentation of configureTextBuilder  *)
(* requires.                                                               *)
(***************************************************************************)
EXTENDS Integers, Sequences, FiniteSets, TLC

\* ------------------------------------------------------------------ bounds
NReq == 2          \* render requests issued in one run
NChars == 2        \* characters (and so glyphs) of the font for free texts
MaxLen == 2        \* longest free text
NRun == 9          \* the last character of the font used by run texts
MaxWarnings == 1   \* warnings of configureTextBuilder that are counted
NSlots == 20              \* slot indices merged into a lone texture: 0..NSlots-1
MaxMerges == 3            \* slots merged into a lone texture

\* ------------------------------------------------------- program constants
threadCount == 4

GlyphSizes == {1, 2}      \* sdfGlyphSize values in use (powers of two)
Requests == 1..NReq
Lanes == 0..(threadCount - 1)

Null == "null"
RobotoURL == "https://fonts.gstatic.com/roboto.woff"
OtherURL == "https://example.com/other.woff"

Max(a, b) == IF a >= b THEN a ELSE b
Range(f) == {f[i] : i \in DOMAIN f}

\* The element of a one-element set. The loops below bind the value an
\* iteration leaves before the next iteration starts: The({F(x) : x \in {e}})
\* is F(e), with e worked out first.
The(S) == CHOOSE x \in S : TRUE

RECURSIVE Pow2(_)
Pow2(k) == IF k = 0 THEN 1 ELSE 2 * Pow2(k - 1)

\* ---------------------------------------------------------------- inputs
RECURSIVE SeqsUpTo(_, _)
SeqsUpTo(S, n) ==
  IF n = 0 THEN {<<>>}
  ELSE LET shorter == SeqsUpTo(S, n - 1)
       IN shorter \cup {Append(s, c) : s \in shorter, c \in S}

Run(a, b) == [i \in 1..(b - a + 1) |-> a + i - 1]

\* Free texts: every string of at most MaxLen characters out of NChars.
FreeTexts == SeqsUpTo(1..NChars, MaxLen)
\* Run texts: prefixes "1 2 3 ..." of the font's alphabet and its last
\* character alone; they bring enough distinct glyphs to outgrow the texture.
RunLengths == {5, 8}
RunTexts == {Run(1, b) : b \in RunLengths} \cup {Run(NRun, NRun)}

\* The partial configuration objects handed to configureTextBuilder.
ConfigInputs ==
  { [f \in {} |-> 0],
    [f \in {"sdfGlyphSize"} |-> 1],
    [f \in {"textureWidth"} |-> 2],
    [f \in {"sdfExponent", "sdfMargin"} |-> IF f = "sdfExponent" THEN 8 ELSE 2],
    [f \in {"defaultFontURL"} |-> OtherURL] }

\* sdfGlyphSize as a request passes it: 0 stands for "not given".
SizeArgs == {0} \cup GlyphSizes

VARIABLES
  CONFIG,        \* the configuration object
  hasRequested,  \* set by the first getTextRenderInfo
  warnings,      \* console.warn calls of configureTextBuilder
  atlases,       \* atlasKey -> atlas
  req,           \* the requests: position, arguments, result
  threads,       \* workerId -> thread (requests, idleTimer)
  callNum,       \* calls of generateSDFInWorker so far
  tasks,         \* SDF tasks in flight: call number -> task
  timers,        \* lane -> idle timers set and neither fired nor cleared
  workers,       \* lanes whose worker is alive
  hist           \* history: what was allocated, dispatched and written

vars == <<CONFIG, hasRequested, warnings, atlases, req, threads, callNum,
          tasks, timers, workers, hist>>

\* --------------------------------------------------------- pure functions

\* toAbsoluteURL: the browser resolves a relative path against the document's
\* base; an absolute URL comes back as it is.
toAbsoluteURL(path) ==
  IF path \in {RobotoURL, OtherURL} THEN path ELSE "https://example.com/" \o path

\* assign(toObj, fromObj): every own key of fromObj overrides toObj's.
assign(toObj, fromObj) ==
  [k \in DOMAIN toObj \cup DOMAIN fromObj |->
     IF k \in DOMAIN fromObj THEN fromObj[k] ELSE toObj[k]]

\* The typesetter (worker/Typesetter.js): one glyph per character, through the
\* font's character map; each glyph at its own pen position.
GlyphOfChar(c) == c + 35
CharOfGlyph(g) == g - 35
typeset(args) ==
  [glyphIds |-> [i \in 1..Len(args.text) |-> GlyphOfChar(args.text[i])],
   glyphPositions |-> [i \in 1..(2 * Len(args.text)) |->
                         IF i % 2 = 1 THEN 100 * ((i + 1) \div 2) ELSE 0],
   fontSize |-> 2,
   unitsPerEm |-> 1]

\* glyphData[glyphId] of the typesetter's result: the outline and its bounds.
\* The bounds are multiples of 64 so that the margin below is a whole number.
glyphData(glyphId) ==
  [path |-> <<"path", glyphId>>,
   pathBounds |-> <<0, 0, 64 * CharOfGlyph(glyphId), 64 * CharOfGlyph(glyphId)>>]

\* The SDF generator (worker/SDFGenerator.js): a pure function of the task to
\* sdfGlyphSize^2 bytes, here nonzero and different for different outlines.
rasterize(task) ==
  [textureData |->
     [i \in 1..(task.width * task.height) |->
        1 + ((16 * CharOfGlyph(task.path[2]) + (i - 1) + task.sdfExponent) % 255)],
   timing |-> 1]

\* fontUnitsMargin (lines 189-190), with sdfMargin counted in sixteenths:
\* max(w, h) / sdfGlyphSize * (sdfMargin * sdfGlyphSize + 0.5).
fontUnitsMargin(pathBounds, sdfGlyphSize, sdfMargin16) ==
  (Max(pathBounds[3] - pathBounds[1], pathBounds[4] - pathBounds[2])
     * (sdfMargin16 * sdfGlyphSize + 8)) \div (16 * sdfGlyphSize)

\* Mutant of NewGlyphInfo: the index taken after the increment (++atlas.count).
NewGlyphInfoPreIncrement(glyphId, atlasIndex, sdfGlyphSize, sdfMargin16) ==
  LET d == glyphData(glyphId)
      m == fontUnitsMargin(d.pathBounds, sdfGlyphSize, sdfMargin16)
  IN [path |-> d.path,
      atlasIndex |-> atlasIndex + 1,
      sdfViewBox |-> <<d.pathBounds[1] - m, d.pathBounds[2] - m,
                       d.pathBounds[3] + m, d.pathBounds[4] + m>>]

\* The glyph entry made for a glyph id not seen before (lines 184-199).
NewGlyphInfo(glyphId, atlasIndex, sdfGlyphSize, sdfMargin16) ==
  LET d == glyphData(glyphId)
      m == fontUnitsMargin(d.pathBounds, sdfGlyphSize, sdfMargin16)
  IN [path |-> d.path,
      atlasIndex |-> atlasIndex,
      sdfViewBox |-> <<d.pathBounds[1] - m, d.pathBounds[2] - m,
                       d.pathBounds[3] + m, d.pathBounds[4] + m>>]

\* Mutant of NewAtlas: three bytes a pixel, the alpha channel forgotten.
NewAtlasRGB(font, sdfGlyphSize, textureWidth) ==
  [count |-> 0,
   glyphs |-> [g \in {} |-> Null],
   sdfTexture |->
     [image |-> [data |-> [i \in 1..(sdfGlyphSize * textureWidth * 3) |-> 0],
                 width |-> textureWidth,
                 height |-> sdfGlyphSize],
      font |-> font,
      needsUpdate |-> FALSE]]

\* A new atlas (lines 151-167): no glyphs, a zeroed RGBA texture of
\* textureWidth x sdfGlyphSize pixels.
NewAtlas(font, sdfGlyphSize, textureWidth) ==
  [count |-> 0,
   glyphs |-> [g \in {} |-> Null],
   sdfTexture |->
     [image |-> [data |-> [i \in 1..(sdfGlyphSize * textureWidth * 4) |-> 0],
                 width |-> textureWidth,
                 height |-> sdfGlyphSize],
      font |-> font,
      needsUpdate |-> FALSE]]

\* Mutant of hasGlyph: the lookup never finds an entry.
hasGlyphNever(atlas, glyphId) == FALSE

\* atlas.glyphs.get(glyphId) finds an entry (lines 180, 183).
hasGlyph(atlas, glyphId) == glyphId \in DOMAIN atlas.glyphs

\* Mutant of atlasIndexOf: the shader index taken from the running count.
atlasIndexOfCount(atlas, glyphInfo) == atlas.count - 1

\* glyphIds[i] = glyphInfo.atlasIndex (line 216).
atlasIndexOf(atlas, glyphInfo) == glyphInfo.atlasIndex

\* The forEach over glyphIds (lines 179-217). st holds the atlas, the glyphIds
\* array (overwritten in place with atlas indices), neededSDFs and glyphBounds.
RECURSIVE forEachGlyphId(_, _, _, _, _)
forEachGlyphId(st, i, result, sdfGlyphSize, sdfMargin16) ==
  IF i > Len(st.glyphIds) THEN st
  ELSE
    LET glyphId == st.glyphIds[i]
        seen == hasGlyph(st.atlas, glyphId)
        glyphInfo == IF seen THEN st.atlas.glyphs[glyphId]
                     ELSE NewGlyphInfo(glyphId, st.atlas.count, sdfGlyphSize, sdfMargin16)
        atlas1 == IF seen THEN st.atlas
                  ELSE [st.atlas EXCEPT !.count = @ + 1,
                                        !.glyphs = (glyphId :> glyphInfo) @@ @]
        fontSizeMult == result.fontSize \div result.unitsPerEm
        posX == result.glyphPositions[2 * i - 1]
        posY == result.glyphPositions[2 * i]
        vb == glyphInfo.sdfViewBox
        st1 == [atlas |-> atlas1,
                glyphIds |-> [st.glyphIds EXCEPT ![i] = atlasIndexOf(atlas1, glyphInfo)],
                neededSDFs |-> IF seen THEN st.neededSDFs
                               ELSE Append(st.neededSDFs, glyphInfo),
                glyphBounds |-> st.glyphBounds \o
                   <<posX + vb[1] * fontSizeMult, posY + vb[2] * fontSizeMult,
                     posX + vb[3] * fontSizeMult, posY + vb[4] * fontSizeMult>>,
                created |-> IF seen THEN st.created ELSE Append(st.created, glyphId)]
    IN The({forEachGlyphId(next, i + 1, result, sdfGlyphSize, sdfMargin16) :
              next \in {st1}})

\* Mutant of growTexture: the old bytes are not copied into the bigger array.
RECURSIVE growTextureNoCopy(_, _, _)
growTextureNoCopy(texImg, atlasIndex, sdfGlyphSize) ==
  IF Len(texImg.data) < (atlasIndex + 1) * sdfGlyphSize * sdfGlyphSize
  THEN growTextureNoCopy(
         [texImg EXCEPT
            !.data = [i \in 1..(2 * Len(texImg.data)) |-> 0],
            !.height = @ * 2],
         atlasIndex, sdfGlyphSize)
  ELSE texImg

\* Mutant of growTexture: an `if` in place of the `while`, one doubling at most.
growTextureOnce(texImg, atlasIndex, sdfGlyphSize) ==
  IF Len(texImg.data) < (atlasIndex + 1) * sdfGlyphSize * sdfGlyphSize
  THEN [texImg EXCEPT
          !.data = texImg.data \o [i \in 1..Len(texImg.data) |-> 0],
          !.height = @ * 2]
  ELSE texImg

\* Mutant of growTexture: the width doubled in place of the height.
RECURSIVE growTextureWidth(_, _, _)
growTextureWidth(texImg, atlasIndex, sdfGlyphSize) ==
  IF Len(texImg.data) < (atlasIndex + 1) * sdfGlyphSize * sdfGlyphSize
  THEN growTextureWidth(
         [texImg EXCEPT
            !.data = texImg.data \o [i \in 1..Len(texImg.data) |-> 0],
            !.width = @ * 2],
         atlasIndex, sdfGlyphSize)
  ELSE texImg

\* Mutant of growTexture: the loop tests the slot's first byte, not its last
\* (atlasIndex in place of atlasIndex + 1).
RECURSIVE growTextureToStart(_, _, _)
growTextureToStart(texImg, atlasIndex, sdfGlyphSize) ==
  IF Len(texImg.data) < atlasIndex * sdfGlyphSize * sdfGlyphSize
  THEN The({growTextureToStart(bigger, atlasIndex, sdfGlyphSize) :
              bigger \in {[texImg EXCEPT
                             !.data = texImg.data \o [i \in 1..Len(texImg.data) |-> 0],
                             !.height = @ * 2]}})
  ELSE texImg

\* The growth loop (lines 237-242): double the array, keep the old bytes at
\* their offsets, double the height.
RECURSIVE growTexture(_, _, _)
growTexture(texImg, atlasIndex, sdfGlyphSize) ==
  IF Len(texImg.data) < (atlasIndex + 1) * sdfGlyphSize * sdfGlyphSize
  THEN The({growTexture(bigger, atlasIndex, sdfGlyphSize) :
              bigger \in {[texImg EXCEPT
                             !.data = texImg.data \o [i \in 1..Len(texImg.data) |-> 0],
                             !.height = @ * 2]}})
  ELSE texImg

\* baseStartIndex (lines 247-251).
baseStartIndex(texImg, atlasIndex, sdfGlyphSize) ==
  LET squareIndex == atlasIndex \div 4
      cols == texImg.width \div sdfGlyphSize
  IN (squareIndex \div cols) * texImg.width * sdfGlyphSize * 4
       + (squareIndex % cols) * sdfGlyphSize * 4
       + (atlasIndex % 4)

\* Mutant of destIndex: the row stride counted in pixels, not in bytes.
destIndexPixelStride(texImg, atlasIndex, sdfGlyphSize, k) ==
  baseStartIndex(texImg, atlasIndex, sdfGlyphSize)
    + (k \div sdfGlyphSize) * texImg.width
    + (k % sdfGlyphSize) * 4

\* The byte index the loops of lines 252-258 write source byte k to
\* (k = y * sdfGlyphSize + x, counted from 0).
destIndex(texImg, atlasIndex, sdfGlyphSize, k) ==
  baseStartIndex(texImg, atlasIndex, sdfGlyphSize)
    + (k \div sdfGlyphSize) * texImg.width * 4
    + (k % sdfGlyphSize) * 4

\* The copy loops (lines 252-258): the bytes are stored one after the other in
\* loop order; a store past the end of a typed array is dropped.
RECURSIVE storeFrom(_, _, _, _, _)
storeFrom(texImg, atlasIndex, textureData, sdfGlyphSize, k) ==
  IF k >= sdfGlyphSize * sdfGlyphSize THEN texImg
  ELSE
    LET j == destIndex(texImg, atlasIndex, sdfGlyphSize, k)
        stored == IF j < Len(texImg.data)
                  THEN [texImg EXCEPT !.data[j + 1] = textureData[k + 1]]
                  ELSE texImg
    IN The({storeFrom(next, atlasIndex, textureData, sdfGlyphSize, k + 1) :
              next \in {stored}})

copyGlyph(texImg, atlasIndex, textureData, sdfGlyphSize) ==
  storeFrom(texImg, atlasIndex, textureData, sdfGlyphSize, 0)

\* One iteration of sdfResults.forEach (lines 233-259).
insertGlyph(texImg, sdfResult, sdfGlyphSize) ==
  The({copyGlyph(grown, sdfResult.atlasIndex, sdfResult.textureData, sdfGlyphSize) :
         grown \in {growTexture(texImg, sdfResult.atlasIndex, sdfGlyphSize)}})

\* Mutant of insertAll: the loop stops one result short.
RECURSIVE insertAllButLast(_, _, _, _)
insertAllButLast(texImg, sdfResults, i, sdfGlyphSize) ==
  IF i >= Len(sdfResults) THEN texImg
  ELSE The({insertAllButLast(next, sdfResults, i + 1, sdfGlyphSize) :
              next \in {insertGlyph(texImg, sdfResults[i], sdfGlyphSize)}})

\* sdfResults.forEach (lines 233-259).
RECURSIVE insertAll(_, _, _, _)
insertAll(texImg, sdfResults, i, sdfGlyphSize) ==
  IF i > Len(sdfResults) THEN texImg
  ELSE The({insertAll(next, sdfResults, i + 1, sdfGlyphSize) :
              next \in {insertGlyph(texImg, sdfResults[i], sdfGlyphSize)}})

\* What each write of a merge saw and left: slot, array length before and
\* after the growth loop, and the byte indices the copy loops stored to.
RECURSIVE writeLog(_, _, _, _)
writeLog(texImg, sdfResults, i, sdfGlyphSize) ==
  IF i > Len(sdfResults) THEN <<>>
  ELSE The({<<[atlasIndex |-> sdfResults[i].atlasIndex,
                lenBefore |-> Len(texImg.data),
                lenAfter |-> Len(after.data),
                indices |-> {destIndex(after, sdfResults[i].atlasIndex, sdfGlyphSize, k) :
                               k \in 0..(sdfGlyphSize * sdfGlyphSize - 1)}]>>
               \o writeLog(after, sdfResults, i + 1, sdfGlyphSize) :
              after \in {insertGlyph(texImg, sdfResults[i], sdfGlyphSize)}})

\* ------------------------------------------------------------ worker pool

\* Mutant of clearTimeout: the call is left out.
clearTimeoutSkipped(pool, lane, thread) == pool

\* clearTimeout(thread.idleTimer): an active timer is taken off the timer
\* queue; a null handle or the handle of a timer already gone does nothing.
clearTimeout(pool, lane, thread) ==
  IF thread.idleTimer = "active"
  THEN [pool EXCEPT !.timers[lane] = @ - 1]
  ELSE pool

\* Mutant of generateSDFInWorker: the lane taken from the counter after its
\* increment (++callNum).
generateSDFPreIncrement(pool, task) ==
  LET lane == (pool.callNum + 1) % threadCount
      thread == IF lane \in DOMAIN pool.threads THEN pool.threads[lane]
                ELSE [requests |-> 0, idleTimer |-> Null]
      cleared == clearTimeout(pool, lane, thread)
      thread1 == [requests |-> thread.requests + 1,
                  idleTimer |-> IF thread.idleTimer = "active"
                                   /\ cleared.timers[lane] < pool.timers[lane]
                                THEN "cleared"
                                ELSE thread.idleTimer]
  IN [cleared EXCEPT
        !.callNum = @ + 1,
        !.threads = (lane :> thread1) @@ @,
        !.tasks = (pool.callNum :> [task EXCEPT !.lane = lane]) @@ @,
        !.workers = @ \cup {lane}]

\* generateSDFInWorker up to the call of the worker module (lines 365-393).
\* pool holds threads, callNum, tasks, timers and workers.
generateSDFInWorker(pool, task) ==
  LET lane == pool.callNum % threadCount
      thread == IF lane \in DOMAIN pool.threads THEN pool.threads[lane]
                ELSE [requests |-> 0, idleTimer |-> Null]
      cleared == clearTimeout(pool, lane, thread)
      thread1 == [requests |-> thread.requests + 1,
                  idleTimer |-> IF thread.idleTimer = "active"
                                   /\ cleared.timers[lane] < pool.timers[lane]
                                THEN "cleared"
                                ELSE thread.idleTimer]
  IN [cleared EXCEPT
        !.callNum = @ + 1,
        !.threads = (lane :> thread1) @@ @,
        !.tasks = (pool.callNum :> [task EXCEPT !.lane = lane]) @@ @,
        !.workers = @ \cup {lane}]

\* The map over neededSDFs (lines 223-225): one task per new glyph, in order.
RECURSIVE dispatchAll(_, _, _, _, _, _)
dispatchAll(pool, r, neededSDFs, i, sdfGlyphSize, sdfExponent) ==
  IF i > Len(neededSDFs) THEN pool
  ELSE
    LET n == neededSDFs[i]
        maxDist == Max(n.sdfViewBox[3] - n.sdfViewBox[1],
                       n.sdfViewBox[4] - n.sdfViewBox[2])
        task == [req |-> r, pos |-> i, lane |-> 0, atlasIndex |-> n.atlasIndex,
                 width |-> sdfGlyphSize, height |-> sdfGlyphSize,
                 path |-> n.path, sdfViewBox |-> n.sdfViewBox,
                 maxDist |-> maxDist, sdfExponent |-> sdfExponent]
    IN The({dispatchAll(next, r, neededSDFs, i + 1, sdfGlyphSize, sdfExponent) :
              next \in {generateSDFInWorker(pool, task)}})

\* Mutant of taskDone: the timer is set on every completion, the test of the
\* counter against zero left out.
taskDoneAlwaysTimer(pool, id) ==
  LET lane == pool.tasks[id].lane
      thread == pool.threads[lane]
      left == thread.requests - 1
  IN [pool EXCEPT
        !.tasks = [k \in DOMAIN pool.tasks \ {id} |-> pool.tasks[k]],
        !.threads[lane] = [requests |-> left, idleTimer |-> "active"],
        !.timers[lane] = @ + 1]

\* The `then` of generateSDFInWorker (lines 394-399): the lane's counter goes
\* down, and at zero the idle timer is set.
taskDone(pool, id) ==
  LET lane == pool.tasks[id].lane
      thread == pool.threads[lane]
      left == thread.requests - 1
  IN [pool EXCEPT
        !.tasks = [k \in DOMAIN pool.tasks \ {id} |-> pool.tasks[k]],
        !.threads[lane] = [requests |-> left,
                           idleTimer |-> IF left = 0 THEN "active" ELSE thread.idleTimer],
        !.timers[lane] = IF left = 0 THEN @ + 1 ELSE @]

thePool == [threads |-> threads, callNum |-> callNum, tasks |-> tasks,
            timers |-> timers, workers |-> workers]

SetPool(pool) ==
  /\ threads' = pool.threads
  /\ callNum' = pool.callNum
  /\ tasks' = pool.tasks
  /\ timers' = pool.timers
  /\ workers' = pool.workers

\* ----------------------------------------------------------------- state

\* The place in sdfResults of a task that has not completed yet.
NoResult == [atlasIndex |-> -1, textureData |-> <<>>, timing |-> 0]

IdleRequest ==
  [pc |-> "idle",
   args |-> [font |-> Null, text |-> <<>>, sdfGlyphSize |-> 0],
   atlasKey |-> <<>>, typeset |-> <<>>,
   glyphIds |-> <<>>, glyphBounds |-> <<>>, neededSDFs |-> <<>>,
   sdfResults |-> <<>>, failed |-> {}, sdfExponent |-> 0, callbacks |-> 0,
   info |-> [sdfGlyphSize |-> 0, sdfExponent |-> 0, glyphBounds |-> <<>>,
             glyphAtlasIndices |-> <<>>]]

Init ==
  /\ CONFIG = [defaultFontURL |-> RobotoURL, sdfGlyphSize |-> 2, sdfMargin |-> 1,
               sdfExponent |-> 9, textureWidth |-> 4]
  /\ hasRequested = FALSE
  /\ warnings = 0
  /\ atlases = [k \in {} |-> Null]
  /\ req = [r \in Requests |-> IdleRequest]
  /\ threads = [l \in {} |-> Null]
  /\ callNum = 0
  /\ tasks = [k \in {} |-> Null]
  /\ timers = [l \in Lanes |-> 0]
  /\ workers = {}
  /\ hist = [created |-> [k \in {} |-> <<>>],
             dispatched |-> [k \in {} |-> 0],
             seen |-> [k \in {} |-> {}],
             written |-> [k \in {} |-> <<>>],
             lastWrites |-> <<>>,
             lastKey |-> <<>>,
             lastConfig |-> <<>>,
             lanes |-> <<>>,
             flagSets |-> [k \in {} |-> 0]]

\* --------------------------------------------------------------- actions

\* Mutant of configureTextBuilder: the hasRequested test is left out.
configureTextBuilderAlways(config) ==
  /\ CONFIG' = assign(CONFIG, config)
  /\ UNCHANGED warnings
  /\ hist' = [hist EXCEPT !.lastConfig = <<[config |-> config, late |-> hasRequested]>>]
  /\ UNCHANGED <<hasRequested, atlases, req, threads, callNum, tasks, timers,
                 workers>>

\* configureTextBuilder(config) (lines 54-60). hist.lastConfig records the
\* argument of the call and whether a request had been issued before it.
configureTextBuilder(config) ==
  /\ IF hasRequested
     THEN /\ warnings < MaxWarnings
          /\ warnings' = warnings + 1
          /\ UNCHANGED CONFIG
     ELSE /\ CONFIG' = assign(CONFIG, config)
          /\ UNCHANGED warnings
  /\ hist' = [hist EXCEPT !.lastConfig = <<[config |-> config, late |-> hasRequested]>>]
  /\ UNCHANGED <<hasRequested, atlases, req, threads, callNum, tasks, timers,
                 workers>>

\* getTextRenderInfo(args, callback) up to the call of the typesetter
\* (lines 114-171). a.font = Null and a.sdfGlyphSize = 0 stand for "not given".
getTextRenderInfo(r, a) ==
  /\ req[r].pc = "idle"
  /\ hasRequested' = TRUE
  /\ LET font == toAbsoluteURL(IF a.font # Null THEN a.font ELSE CONFIG.defaultFontURL)
         sdfGlyphSize == IF a.sdfGlyphSize # 0 THEN a.sdfGlyphSize ELSE CONFIG.sdfGlyphSize
         args == [font |-> font, text |-> a.text, sdfGlyphSize |-> sdfGlyphSize]
         atlasKey == <<font, sdfGlyphSize>>
         fresh == atlasKey \notin DOMAIN atlases
     IN /\ atlases' = IF fresh
                      THEN (atlasKey :> NewAtlas(font, sdfGlyphSize, CONFIG.textureWidth)) @@ atlases
                      ELSE atlases
        /\ req' = [req EXCEPT ![r] = [IdleRequest EXCEPT
                     !.pc = "typesetting", !.args = args, !.atlasKey = atlasKey,
                     !.sdfExponent = CONFIG.sdfExponent]]
        /\ hist' = IF fresh
                   THEN [hist EXCEPT !.created = (atlasKey :> <<>>) @@ @,
                                     !.dispatched = (atlasKey :> 0) @@ @,
                                     !.seen = (atlasKey :> {}) @@ @,
                                     !.written = (atlasKey :> <<>>) @@ @,
                                     !.flagSets = (atlasKey :> 0) @@ @]
                   ELSE hist
  /\ UNCHANGED <<CONFIG, warnings, threads, callNum, tasks, timers, workers>>

\* preloadFont(options, callback) (lines 315-318), characters given as one
\* string: '' + characters is the string itself.
preloadFont(r, o) ==
  getTextRenderInfo(r, [font |-> o.font, sdfGlyphSize |-> o.sdfGlyphSize,
                        text |-> o.characters])

\* Mutant of needsUpdate: the flag set by every merge.
needsUpdateAlways(sdfResults) == TRUE

\* Whether the merge executes atlas.sdfTexture.needsUpdate = true (line 260,
\* inside the `if (sdfResults.length)` of line 232).
needsUpdate(sdfResults) == Len(sdfResults) > 0

\* The merge and the callback (lines 230-294), run once all of the request's
\* SDF results are in. rq is the request with sdfResults complete, atl and h
\* the atlases and the history as the handler has left them so far.
\* hist.flagSets counts the executions of line 260 on each atlas.
Merge(r, rq0, atl0, h0) ==
  \E rq \in {rq0} : \E atl \in {atl0} : \E h \in {h0} :
  LET key == rq.atlasKey
      atlas == atl[key]
      G == rq.args.sdfGlyphSize
      some == Len(rq.sdfResults) > 0
      image1 == insertAll(atlas.sdfTexture.image, rq.sdfResults, 1, G)
      flag == needsUpdate(rq.sdfResults)
      atlas0 == IF some
                THEN [atlas EXCEPT !.sdfTexture.image = image1]
                ELSE atlas
      atlas1 == IF flag
                THEN [atlas0 EXCEPT !.sdfTexture.needsUpdate = TRUE]
                ELSE atlas0
      info == [sdfGlyphSize |-> G, sdfExponent |-> rq.sdfExponent,
               glyphBounds |-> rq.glyphBounds,
               glyphAtlasIndices |-> rq.glyphIds]
  IN /\ atlases' = [atl EXCEPT ![key] = atlas1]
     /\ req' = [req EXCEPT ![r] = [rq EXCEPT !.pc = "done",
                                             !.callbacks = @ + 1,
                                             !.info = info]]
     /\ hist' = [h EXCEPT
          !.written[key] =
             [s \in DOMAIN @ \cup {rq.sdfResults[i].atlasIndex : i \in 1..Len(rq.sdfResults)} |->
                IF \E i \in 1..Len(rq.sdfResults) : rq.sdfResults[i].atlasIndex = s
                THEN rq.sdfResults[CHOOSE i \in 1..Len(rq.sdfResults) :
                                     rq.sdfResults[i].atlasIndex = s].textureData
                ELSE @[s]],
          !.lastWrites = IF some
                         THEN writeLog(atlas.sdfTexture.image, rq.sdfResults, 1, G)
                         ELSE @,
          !.lastKey = IF some THEN key ELSE @,
          !.flagSets[key] = IF flag THEN @ + 1 ELSE @]

\* Mutant of allResolved: the join of an empty list never resolves.
allResolvedNonEmpty(sdfResults) ==
  /\ Len(sdfResults) > 0
  /\ \A i \in 1..Len(sdfResults) : sdfResults[i] # NoResult

\* Thenable.all(...) is resolved (lines 223, 230): every task has its result;
\* the join of an empty list is resolved from the start.
allResolved(sdfResults) == \A i \in 1..Len(sdfResults) : sdfResults[i] # NoResult

\* The `then` of typesetInWorker (lines 171-230): allocate a slot for every
\* glyph id not seen before, dispatch one SDF task for each of them, and, when
\* there is none, go on to the merge and the callback at once (Thenable.all of
\* an empty list is resolved already).
typesetDone(r) ==
  /\ req[r].pc = "typesetting"
  /\ \E result \in {typeset(req[r].args)} :
     \E st \in {forEachGlyphId(
                  [atlas |-> atlases[req[r].atlasKey], glyphIds |-> result.glyphIds,
                   neededSDFs |-> <<>>, glyphBounds |-> <<>>, created |-> <<>>],
                  1, result, req[r].args.sdfGlyphSize, CONFIG.sdfMargin)} :
     \E pool \in {dispatchAll(thePool, r, st.neededSDFs, 1,
                              req[r].args.sdfGlyphSize, CONFIG.sdfExponent)} :
     LET rq == req[r]
         key == rq.atlasKey
         G == rq.args.sdfGlyphSize
         rq1 == [rq EXCEPT !.pc = "rasterizing",
                           !.typeset = result.glyphIds,
                           !.glyphIds = st.glyphIds,
                           !.glyphBounds = st.glyphBounds,
                           !.neededSDFs = st.neededSDFs,
                           !.sdfResults = [i \in 1..Len(st.neededSDFs) |-> NoResult]]
         atl == [atlases EXCEPT ![key] = st.atlas]
         h == [hist EXCEPT !.created[key] = @ \o st.created,
                           !.dispatched[key] = @ + (pool.callNum - callNum),
                           !.lanes = @ \o [i \in 1..(pool.callNum - callNum) |->
                                              pool.tasks[callNum + i - 1].lane],
                           !.seen[key] = @ \cup Range(result.glyphIds)]
     IN /\ SetPool(pool)
        /\ IF allResolved(rq1.sdfResults)
           THEN Merge(r, rq1, atl, h)
           ELSE /\ atlases' = atl
                /\ req' = [req EXCEPT ![r] = rq1]
                /\ hist' = h
  /\ UNCHANGED <<CONFIG, hasRequested, warnings>>

\* Mutant of resultSlot: results are matched to glyphs in order of arrival.
resultSlotByArrival(rq, t) ==
  LET first == CHOOSE i \in 1..Len(rq.sdfResults) :
                 /\ rq.sdfResults[i] = NoResult
                 /\ \A j \in 1..(i - 1) : rq.sdfResults[j] # NoResult
  IN [pos |-> first, atlasIndex |-> rq.neededSDFs[first].atlasIndex]

\* Mutant of resultSlot: every result put at the head of the list.
resultSlotFirst(rq, t) == [pos |-> 1, atlasIndex |-> t.atlasIndex]

\* Where the result of task t goes (lines 223-229): its place in the list is
\* the place of its promise in the argument of Thenable.all, and its
\* atlasIndex is the one bound in the closure made for its glyph entry.
resultSlot(rq, t) == [pos |-> t.pos, atlasIndex |-> t.atlasIndex]

\* One SDF task completes (lines 394-399, 226-229): the lane's counter goes
\* down, the result takes its place in the request's list, and when the list
\* is full the merge and the callback run (lines 230-294).
sdfDone(id) ==
  /\ id \in DOMAIN tasks
  /\ tasks[id].lane \in workers
  /\ \E out \in {rasterize(tasks[id])} :
     \E pool \in {taskDone(thePool, id)} :
     LET t == tasks[id]
         r == t.req
         slot == resultSlot(req[r], t)
         rq1 == [req[r] EXCEPT !.sdfResults[slot.pos] =
                   [atlasIndex |-> slot.atlasIndex, textureData |-> out.textureData,
                    timing |-> out.timing]]
     IN /\ SetPool(pool)
        /\ IF allResolved(rq1.sdfResults)
           THEN Merge(r, rq1, atlases, hist)
           ELSE /\ req' = [req EXCEPT ![r] = rq1]
                /\ UNCHANGED <<atlases, hist>>
  /\ UNCHANGED <<CONFIG, hasRequested, warnings>>

\* One SDF task fails: the promise of the worker module is rejected. The
\* `then` of line 394 and the `then` of line 226 have a fulfilment handler
\* only, so neither runs: the lane's counter stays as it is, the request's
\* list never gets the result (failed has its position), and the join of
\* line 223 is never resolved.
sdfFailed(id) ==
  /\ id \in DOMAIN tasks
  /\ tasks[id].lane \in workers
  /\ LET t == tasks[id] IN
       /\ tasks' = [k \in DOMAIN tasks \ {id} |-> tasks[k]]
       /\ req' = [req EXCEPT ![t.req].failed = @ \cup {t.pos}]
  /\ UNCHANGED <<CONFIG, hasRequested, warnings, atlases, threads, callNum,
                 timers, workers, hist>>

\* An idle timer fires (line 396): terminateWorker(workerId). When the timer
\* is the one the thread's handle names, the handle names a timer that is gone.
idleTimeout(lane, handled) ==
  /\ timers[lane] > 0
  /\ IF handled
     THEN /\ lane \in DOMAIN threads
          /\ threads[lane].idleTimer = "active"
          /\ threads' = [threads EXCEPT ![lane].idleTimer = "fired"]
     ELSE /\ timers[lane] > (IF lane \in DOMAIN threads /\ threads[lane].idleTimer = "active"
                             THEN 1 ELSE 0)
          /\ UNCHANGED threads
  /\ timers' = [timers EXCEPT ![lane] = @ - 1]
  /\ workers' = workers \ {lane}
  /\ UNCHANGED <<CONFIG, hasRequested, warnings, atlases, req, callNum, tasks, hist>>

RequestArgs(Fonts, Texts, Sizes) ==
  [font : Fonts, text : Texts, sdfGlyphSize : Sizes]

PreloadOptions(Fonts, Texts, Sizes) ==
  [font : Fonts, characters : Texts, sdfGlyphSize : Sizes]

\* Every handler of the program, its inputs drawn from the given sets.
NextOver(Configs, Fonts, Texts, Sizes) ==
  \/ \E config \in Configs : configureTextBuilder(config)
  \/ \E r \in Requests : \E a \in RequestArgs(Fonts, Texts, Sizes) :
       getTextRenderInfo(r, a)
  \/ \E r \in Requests : \E o \in PreloadOptions(Fonts, Texts, Sizes) :
       preloadFont(r, o)
  \/ \E r \in Requests : typesetDone(r)
  \/ \E id \in DOMAIN tasks : sdfDone(id)
  \/ \E lane \in Lanes : \E handled \in BOOLEAN : idleTimeout(lane, handled)

\* Concurrent requests with free texts, on the default atlas or on the atlas
\* of sdfGlyphSize 1, under either texture width.
Next == NextOver({[f \in {"textureWidth"} |-> 2]}, {Null}, FreeTexts, {0, 1})

Spec == Init /\ [][Next]_vars

\* Requests with many distinct glyphs, which outgrow the texture.
NextGrow == NextOver({[f \in {"textureWidth"} |-> 2]}, {Null}, RunTexts, {0})

SpecGrow == Init /\ [][NextGrow]_vars

\* Every configuration input, every font and size argument, one short text.
NextConfig == NextOver(ConfigInputs, {Null, "other.woff"}, {<<1>>}, SizeArgs)

SpecConfig == Init /\ [][NextConfig]_vars

\* Concurrent requests with free texts whose SDF tasks may fail.
NextFail ==
  \/ NextOver({[f \in {"textureWidth"} |-> 2]}, {Null}, FreeTexts, {0})
  \/ \E id \in DOMAIN tasks : sdfFailed(id)

SpecFail == Init /\ [][NextFail]_vars

\* SpecGrow with the timers of the event loop: an idle timer that stays
\* pending fires once its delay has elapsed.
SpecGrowFair ==
  SpecGrow /\ \A lane \in Lanes : WF_vars(idleTimeout(lane, TRUE))

\* The body of sdfResults.forEach (lines 233-259) on its own: a texture of
\* any width and glyph size, both powers of two, and slots merged into it in
\* any order.
PackInputs == {wg \in {1, 2, 4} \X {1, 2, 4} : wg[2] <= wg[1]}

PackKey(sdfGlyphSize) == <<toAbsoluteURL(RobotoURL), sdfGlyphSize>>

InitPack ==
  \E wg \in PackInputs :
    LET key == PackKey(wg[2]) IN
    /\ CONFIG = [defaultFontURL |-> RobotoURL, sdfGlyphSize |-> wg[2], sdfMargin |-> 1,
                 sdfExponent |-> 9, textureWidth |-> wg[1]]
    /\ hasRequested = TRUE
    /\ warnings = 0
    /\ atlases = (key :> [NewAtlas(key[1], wg[2], wg[1]) EXCEPT !.count = NSlots])
    /\ req = [r \in Requests |-> IdleRequest]
    /\ threads = [l \in {} |-> Null]
    /\ callNum = 0
    /\ tasks = [k \in {} |-> Null]
    /\ timers = [l \in Lanes |-> 0]
    /\ workers = {}
    /\ hist = [created |-> (key :> <<>>),
               dispatched |-> (key :> 0),
               seen |-> (key :> {}),
               written |-> (key :> <<>>),
               lastWrites |-> <<>>,
               lastKey |-> <<>>,
               lastConfig |-> <<>>,
               lanes |-> <<>>,
               flagSets |-> (key :> 0)]

\* One iteration of sdfResults.forEach (lines 233-259) for slot atlasIndex,
\* with sdfGlyphSize^2 nonzero bytes of texture data.
forEachSdfResult(atlasIndex) ==
  LET key == PackKey(CONFIG.sdfGlyphSize)
      G == CONFIG.sdfGlyphSize
      sdfResult == [atlasIndex |-> atlasIndex,
                    textureData |-> [i \in 1..(G * G) |-> 1 + ((atlasIndex + i) % 255)],
                    timing |-> 1]
      texImg == atlases[key].sdfTexture.image
  IN /\ atlasIndex \notin DOMAIN hist.written[key]
     /\ Cardinality(DOMAIN hist.written[key]) < MaxMerges
     /\ \E after \in {insertAll(texImg, <<sdfResult>>, 1, G)} :
          atlases' = [atlases EXCEPT ![key].sdfTexture.image = after]
     /\ hist' = [hist EXCEPT
          !.written[key] = [s \in DOMAIN @ \cup {atlasIndex} |->
                              IF s = atlasIndex THEN sdfResult.textureData ELSE @[s]],
          !.lastWrites = writeLog(texImg, <<sdfResult>>, 1, G),
          !.lastKey = key]
     /\ UNCHANGED <<CONFIG, hasRequested, warnings, req, threads, callNum, tasks,
                    timers, workers>>

NextPack == \E atlasIndex \in 0..(NSlots - 1) : forEachSdfResult(atlasIndex)

SpecPack == InitPack /\ [][NextPack]_vars

\* Spec with the collaborators completing: the typesetter answers every
\* request, and every SDF task whose worker is alive completes.
SpecFair ==
  /\ Spec
  /\ \A r \in Requests : WF_vars(typesetDone(r))
  /\ \A id \in 0..(NReq * MaxLen - 1) : WF_vars(sdfDone(id))

\* ================================================================ claims

\* The requests whose typesetting result has been processed.
Typeset(r) == req[r].pc \in {"rasterizing", "done"}

\* The slot indices a request holds for its glyphs: those handed to the
\* callback once it has been called.
Indices(r) ==
  IF req[r].pc = "done" THEN req[r].info.glyphAtlasIndices ELSE req[r].glyphIds

\* The byte index of pixel (x, y) of slot s in a texture of the given width:
\* channel s mod 4 of square s / 4, squares laid left to right, then top to
\* bottom, in RGBA pixels of 4 bytes.
SlotByteIndex(width, G, s, x, y) ==
  LET square == s \div 4
      cols == width \div G
      px == (square % cols) * G + x
      py == (square \div cols) * G + y
  IN (py * width + px) * 4 + (s % 4)

SlotBytes(width, G, s) ==
  {SlotByteIndex(width, G, s, x, y) : x \in 0..(G - 1), y \in 0..(G - 1)}

\* The G x G bytes of slot s as the texture holds them, row by row; -1 where
\* the texture has no such byte.
ReadSlot(image, G, s) ==
  [k \in 1..(G * G) |->
     LET j == SlotByteIndex(image.width, G, s, (k - 1) % G, (k - 1) \div G)
     IN IF j < Len(image.data) THEN image.data[j + 1] ELSE -1]

\* What the SDF generator returns for a glyph entry of an atlas.
SdfOf(glyphInfo, G, sdfExponent) ==
  rasterize([width |-> G, height |-> G, path |-> glyphInfo.path,
             sdfViewBox |-> glyphInfo.sdfViewBox, sdfExponent |-> sdfExponent]).textureData

\* ---------------------------------------------------------------- C1
\* C1: on every atlas, at most one glyph entry is ever created for a glyph
\* id, whatever the number and the interleaving of the requests on it.
C1_OneEntryPerGlyph ==
  \A key \in DOMAIN hist.created :
    \A i, j \in 1..Len(hist.created[key]) :
      hist.created[key][i] = hist.created[key][j] => i = j

\* Two requests on one atlas, both past typesetting with the first still
\* rasterizing, whose results share a glyph id.
C1_Witness ==
  /\ req[1].pc = "rasterizing"
  /\ Typeset(2)
  /\ req[1].atlasKey = req[2].atlasKey
  /\ Range(req[1].typeset) \cap Range(req[2].typeset) # {}
  /\ Len(hist.created[req[1].atlasKey]) >= 1

\* ---------------------------------------------------------------- C2
\* C2: on every atlas the number of SDF tasks dispatched equals the number of
\* distinct glyph ids seen in typesetting results so far, and all occurrences
\* of a glyph id, in one result or in several, carry the same slot index.
C2_OneTaskPerGlyph ==
  /\ \A key \in DOMAIN atlases :
       hist.dispatched[key] = Cardinality(hist.seen[key])
  /\ \A r1, r2 \in Requests :
       (Typeset(r1) /\ Typeset(r2) /\ req[r1].atlasKey = req[r2].atlasKey) =>
         \A i \in 1..Len(req[r1].typeset) : \A j \in 1..Len(req[r2].typeset) :
           req[r1].typeset[i] = req[r2].typeset[j] => Indices(r1)[i] = Indices(r2)[j]
  /\ \A r \in Requests :
       (Typeset(r) /\ req[r].typeset = <<GlyphOfChar(1), GlyphOfChar(1)>>
          /\ hist.seen[req[r].atlasKey] = {GlyphOfChar(1)}) =>
         (hist.dispatched[req[r].atlasKey] = 1 /\ Indices(r) = <<0, 0>>)

\* "AB" then "BA" on one atlas, both delivered: two tasks in all.
C2_Witness ==
  /\ req[1].pc = "done" /\ req[2].pc = "done"
  /\ req[1].atlasKey = req[2].atlasKey
  /\ req[1].typeset = <<GlyphOfChar(1), GlyphOfChar(2)>>
  /\ req[2].typeset = <<GlyphOfChar(2), GlyphOfChar(1)>>
  /\ hist.dispatched[req[1].atlasKey] = 2
  /\ req[1].info.glyphAtlasIndices = <<0, 1>>
  /\ req[2].info.glyphAtlasIndices = <<1, 0>>

\* ---------------------------------------------------------------- C3
\* C3: on every atlas count is the number of glyph entries, the entries'
\* indices are exactly 0..count-1 in first-seen order without duplicates, and
\* an entry's index never changes once assigned.
C3_IndicesDense ==
  \A key \in DOMAIN atlases :
    LET atlas == atlases[key] IN
      /\ atlas.count = Cardinality(DOMAIN atlas.glyphs)
      /\ {atlas.glyphs[g].atlasIndex : g \in DOMAIN atlas.glyphs} = 0..(atlas.count - 1)
      /\ \A g, h \in DOMAIN atlas.glyphs :
           atlas.glyphs[g].atlasIndex = atlas.glyphs[h].atlasIndex => g = h
      /\ Len(hist.created[key]) = atlas.count
      /\ \A i \in 1..Len(hist.created[key]) :
           /\ hist.created[key][i] \in DOMAIN atlas.glyphs
           /\ atlas.glyphs[hist.created[key][i]].atlasIndex = i - 1

C3_IndexKept ==
  \A key \in DOMAIN atlases : \A g \in DOMAIN atlases[key].glyphs :
    /\ key \in DOMAIN atlases'
    /\ g \in DOMAIN atlases'[key].glyphs
    /\ atlases'[key].glyphs[g].atlasIndex = atlases[key].glyphs[g].atlasIndex

C3_MonotonicSlots == []C3_IndicesDense /\ [][C3_IndexKept]_vars

\* An atlas with two entries, the second made by a later request than the
\* first.
C3_Witness ==
  \E key \in DOMAIN atlases :
    /\ atlases[key].count = 2
    /\ req[1].pc = "done" /\ req[2].pc = "done"
    /\ req[1].atlasKey = key /\ req[2].atlasKey = key
    /\ Len(req[1].neededSDFs) = 1 /\ Len(req[2].neededSDFs) = 1

\* ---------------------------------------------------------------- C4
\* C4: when a request's callback has been called, none of the tasks the
\* request dispatched is still in flight and the texture holds, at the slot of
\* each of them, the bytes the task returned.
C4_FanInBarrier ==
  \A r \in Requests :
    req[r].callbacks > 0 =>
      /\ \A id \in DOMAIN tasks : tasks[id].req # r
      /\ \A i \in 1..Len(req[r].neededSDFs) :
           ReadSlot(atlases[req[r].atlasKey].sdfTexture.image,
                    req[r].args.sdfGlyphSize, req[r].neededSDFs[i].atlasIndex)
             = SdfOf(req[r].neededSDFs[i], req[r].args.sdfGlyphSize, req[r].sdfExponent)

\* A request that dispatched two tasks has been called back while the other
\* request's task is still in flight.
C4_Witness ==
  \E r \in Requests :
    /\ req[r].callbacks = 1
    /\ Len(req[r].neededSDFs) = 2
    /\ \E id \in DOMAIN tasks : tasks[id].req # r

\* ------------------------------------------------------- texture helpers
Image(key) == atlases[key].sdfTexture.image
GlyphSize(key) == key[2]
\* The capacity in slots: buffer bytes / sdfGlyphSize^2.
Capacity(key) == Len(Image(key).data) \div (GlyphSize(key) * GlyphSize(key))
\* The bytes of the buffer an atlas starts with.
InitialLen(key) == GlyphSize(key) * Image(key).width * 4
Written(key) == DOMAIN hist.written[key]
IsDoublingOf(a, b) == \E k \in 0..8 : a = b * Pow2(k)
IsPowerOfTwo(n) == \E k \in 0..16 : n = Pow2(k)

\* ---------------------------------------------------------------- C5
\* C5: in every step that grows an atlas buffer, every slot written so far
\* reads back, at its packing address in the grown buffer, as the bytes that
\* were written to it, and the added range holds zeros except for the slots
\* the step itself writes.
C5_GrowthStep ==
  \A key \in DOMAIN atlases :
    LET old == Image(key)
        new == atlases'[key].sdfTexture.image
        G == GlyphSize(key)
    IN Len(new.data) > Len(old.data) =>
         /\ \A s \in Written(key) :
              /\ ReadSlot(old, G, s) = hist.written[key][s]
              /\ ReadSlot(new, G, s) = hist.written[key][s]
         /\ \A s \in DOMAIN hist'.written[key] :
              ReadSlot(new, G, s) = hist'.written[key][s]
         /\ \A j \in Len(old.data)..(Len(new.data) - 1) :
              \/ new.data[j + 1] = 0
              \/ \E s \in DOMAIN hist'.written[key] \ Written(key) :
                   j \in SlotBytes(new.width, G, s)

C5_GrowthPreservesData == [][C5_GrowthStep]_vars

\* The last merge grew the buffer of an atlas that held slots written by an
\* earlier merge, and did not fill all of the added range.
C5_Witness ==
  /\ hist.lastKey \in DOMAIN atlases
  /\ \E i \in 1..Len(hist.lastWrites) :
       /\ hist.lastWrites[i].lenAfter > hist.lastWrites[i].lenBefore
       /\ \E s \in Written(hist.lastKey) :
            /\ \A k \in 1..Len(hist.lastWrites) : hist.lastWrites[k].atlasIndex # s
            /\ ReadSlot(Image(hist.lastKey), GlyphSize(hist.lastKey), s)
                 = hist.written[hist.lastKey][s]
       /\ Image(hist.lastKey).data[Len(Image(hist.lastKey).data)] = 0

\* ---------------------------------------------------------------- C6
\* C6: a write whose slot lies beyond the buffer doubles the buffer until the
\* slot is covered and no further (a write of slot c at capacity c gives
\* exactly 2c); other writes leave the length alone; the capacity is always
\* the initial capacity times a power of two, the smallest one that covers
\* the largest slot written unless that is the initial capacity itself.
C6_GrowthDoubles ==
  /\ \A i \in 1..Len(hist.lastWrites) :
       LET w == hist.lastWrites[i]
           G == GlyphSize(hist.lastKey)
           need == (w.atlasIndex + 1) * G * G
       IN /\ w.lenBefore >= need => w.lenAfter = w.lenBefore
          /\ w.lenBefore < need =>
               /\ IsDoublingOf(w.lenAfter, w.lenBefore)
               /\ w.lenAfter >= need
               /\ w.lenAfter \div 2 < need
          /\ w.atlasIndex * G * G = w.lenBefore => w.lenAfter = 2 * w.lenBefore
  /\ \A key \in DOMAIN atlases :
       LET G == GlyphSize(key) IN
         /\ IsDoublingOf(Len(Image(key).data), InitialLen(key))
         /\ Capacity(key) * G * G = Len(Image(key).data)
         /\ \A s \in Written(key) : s < Capacity(key)
         /\ Len(Image(key).data) > InitialLen(key) =>
              \E s \in Written(key) : Capacity(key) \div 2 <= s

\* One write took the buffer from capacity c to 4c.
C6_Witness ==
  \E i \in 1..Len(hist.lastWrites) :
    hist.lastWrites[i].lenAfter = 4 * hist.lastWrites[i].lenBefore

\* ---------------------------------------------------------------- C7
\* C7: every written slot s reads back, from channel s mod 4 of square s / 4
\* (squares left to right, then top to bottom), as the bytes written to it;
\* the bytes the code addresses for a slot are exactly that channel of that
\* square, so distinct slots share no byte; and every byte outside the
\* written slots is still zero.
C7_Packing ==
  \A key \in DOMAIN atlases :
    LET image == Image(key)
        G == GlyphSize(key)
        dest(s) == {destIndex(image, s, G, k) : k \in 0..(G * G - 1)}
    IN /\ \A s \in Written(key) : ReadSlot(image, G, s) = hist.written[key][s]
       /\ \A s \in Written(key) :
            /\ dest(s) = SlotBytes(image.width, G, s)
            /\ \A k \in 0..(G * G - 1) :
                 destIndex(image, s, G, k)
                   = SlotByteIndex(image.width, G, s, k % G, k \div G)
            /\ \A t \in Written(key) : s # t => dest(s) \cap dest(t) = {}
       /\ \A j \in 0..(Len(image.data) - 1) :
            (\A s \in Written(key) : j \notin SlotBytes(image.width, G, s))
              => image.data[j + 1] = 0

\* Nine slots written in a texture two squares wide: two rows of squares,
\* all four channels.
C7_Witness ==
  \E key \in DOMAIN atlases :
    /\ Image(key).width = 2 * GlyphSize(key)
    /\ Written(key) = 0..8
    /\ ReadSlot(Image(key), GlyphSize(key), 8) = hist.written[key][8]
    /\ ReadSlot(Image(key), GlyphSize(key), 5) = hist.written[key][5]

\* ---------------------------------------------------------------- C8
\* C8 as stated: count never exceeds the capacity, a power of two.
C8_CountWithinCapacity ==
  \A key \in DOMAIN atlases :
    /\ atlases[key].count <= Capacity(key)
    /\ IsPowerOfTwo(Capacity(key))

\* C8 amended: the capacity is always a power of two and exceeds every slot
\* written; count is within the capacity whenever every allocated slot has
\* been written (the buffer grows when a slot is written, not when it is
\* allocated).
C8_CapacityCoversWritten ==
  \A key \in DOMAIN atlases :
    /\ IsPowerOfTwo(Capacity(key))
    /\ Capacity(key) * GlyphSize(key) * GlyphSize(key) = Len(Image(key).data)
    /\ \A s \in Written(key) : s < Capacity(key)
    /\ Written(key) = 0..(atlases[key].count - 1) => atlases[key].count <= Capacity(key)

\* All five allocated slots written, in a buffer grown from capacity 4 to 8.
C8_Witness ==
  \E key \in DOMAIN atlases :
    /\ atlases[key].count = 5
    /\ Written(key) = 0..4
    /\ InitialLen(key) = 4 * GlyphSize(key) * GlyphSize(key)
    /\ Capacity(key) = 8

\* ---------------------------------------------------------------- C9
\* C9: a call of configureTextBuilder after the first request (or preload)
\* has been issued leaves every CONFIG field as it was; a call before any
\* request sets exactly the fields it supplies, to the values supplied, and
\* leaves the others; no step taken once a request has been issued, and no
\* step of a request (with its own sdfGlyphSize or without), changes CONFIG.
C9_ConfigStep ==
  /\ hasRequested => CONFIG' = CONFIG
  /\ req' # req => CONFIG' = CONFIG
  /\ hist'.lastConfig # hist.lastConfig =>
       LET call == hist'.lastConfig[1] IN
         IF call.late
         THEN hasRequested /\ CONFIG' = CONFIG
         ELSE /\ ~hasRequested
              /\ DOMAIN CONFIG' = DOMAIN CONFIG \cup DOMAIN call.config
              /\ \A k \in DOMAIN call.config : CONFIG'[k] = call.config[k]
              /\ \A k \in DOMAIN CONFIG \ DOMAIN call.config : CONFIG'[k] = CONFIG[k]

C9_ConfigFrozen == [][C9_ConfigStep]_vars

\* CONFIG.sdfGlyphSize was overridden before the first request, a request
\* then passed a different sdfGlyphSize of its own, and the last call of
\* configureTextBuilder, which supplied yet another field, came too late.
C9_Witness ==
  /\ CONFIG.sdfGlyphSize = 1
  /\ \E r \in Requests :
       /\ req[r].pc # "idle"
       /\ req[r].args.sdfGlyphSize # CONFIG.sdfGlyphSize
  /\ warnings > 0
  /\ Len(hist.lastConfig) = 1
  /\ hist.lastConfig[1].late
  /\ "textureWidth" \in DOMAIN hist.lastConfig[1].config
  /\ CONFIG.textureWidth # hist.lastConfig[1].config.textureWidth

\* ---------------------------------------------------------------- C10
\* C10: when a lane's counter of pending requests returns to zero its idle
\* timer is set; a worker is terminated only by that timer, with the counter
\* still at zero; a dispatch to the lane cancels the pending timer, so that
\* the worker stays; and a timer that is set and not cancelled by a dispatch
\* does terminate the lane's worker.
Dispatched(lane) ==
  \E id \in callNum..(callNum' - 1) : id % threadCount = lane

C10_TeardownStep ==
  \A lane \in Lanes :
    /\ (lane \in DOMAIN threads /\ threads[lane].requests > 0
          /\ threads'[lane].requests = 0) =>
         /\ threads'[lane].idleTimer = "active"
         /\ timers'[lane] = 1
    /\ (lane \in workers /\ lane \notin workers') =>
         /\ lane \in DOMAIN threads
         /\ threads[lane].requests = 0
         /\ threads[lane].idleTimer = "active"
         /\ threads'[lane].idleTimer = "fired"
         /\ timers[lane] = 1 /\ timers'[lane] = 0
    /\ Dispatched(lane) =>
         /\ timers'[lane] = 0
         /\ threads'[lane].idleTimer # "active"
         /\ threads'[lane].requests > 0
         /\ lane \in workers'
         /\ (lane \in DOMAIN threads /\ threads[lane].idleTimer = "active")
              => threads'[lane].idleTimer = "cleared"

C10_TimerFires ==
  \A lane \in Lanes :
    (lane \in DOMAIN threads /\ threads[lane].idleTimer = "active")
      ~> (lane \notin workers \/ threads[lane].idleTimer = "cleared")

C10_IdleTeardown == [][C10_TeardownStep]_vars /\ C10_TimerFires

\* One lane's teardown was cancelled by a dispatch and its worker is at
\* work; another lane's timer went off and its worker is gone.
C10_Witness ==
  \E l1, l2 \in DOMAIN threads :
    /\ threads[l1].idleTimer = "cleared"
    /\ threads[l1].requests > 0
    /\ l1 \in workers
    /\ threads[l2].idleTimer = "fired"
    /\ threads[l2].requests = 0
    /\ l2 \notin workers

\* ---------------------------------------------------------------- C11
\* C11: a request with the empty text, at the step that processes its
\* typesetting result, is called back at once with empty glyphBounds and
\* glyphAtlasIndices; the step allocates no glyph entry, dispatches no task
\* and leaves the atlas texture as it was; the callback is called once.
C11_EmptyStep ==
  \A r \in Requests :
    (req[r].pc = "typesetting" /\ req[r].args.text = <<>> /\ req'[r] # req[r]) =>
      LET key == req[r].atlasKey IN
        /\ req'[r].pc = "done"
        /\ req'[r].callbacks = 1
        /\ req'[r].info.glyphBounds = <<>>
        /\ req'[r].info.glyphAtlasIndices = <<>>
        /\ atlases'[key].count = atlases[key].count
        /\ atlases'[key].glyphs = atlases[key].glyphs
        /\ atlases'[key].sdfTexture.image = atlases[key].sdfTexture.image
        /\ hist'.created = hist.created
        /\ callNum' = callNum
        /\ tasks' = tasks

C11_EmptyDelivered ==
  \A r \in Requests :
    (req[r].args.text = <<>> /\ req[r].pc \notin {"idle", "typesetting"}) =>
      /\ req[r].pc = "done"
      /\ req[r].callbacks = 1
      /\ req[r].neededSDFs = <<>>

C11_EmptyText == [][C11_EmptyStep]_vars /\ []C11_EmptyDelivered

\* An empty request has been called back on an atlas that holds glyphs of
\* the other request, one of them still being rasterized.
C11_Witness ==
  \E r \in Requests :
    /\ req[r].pc = "done"
    /\ req[r].args.text = <<>>
    /\ req[r].callbacks = 1
    /\ atlases[req[r].atlasKey].count > 0
    /\ \E id \in DOMAIN tasks : tasks[id].req # r

\* ---------------------------------------------------------------- C12
\* C12: once the rasterization of a glyph a request needs has failed and
\* none of the request's tasks is in flight any more, the request has been
\* called back (the failure has reached its completion path and the request
\* is not left waiting at the barrier); and a request one of whose tasks
\* failed is never handed a result that looks successful.
C12_FailureSurfaced ==
  \A r \in Requests :
    /\ (req[r].failed # {} /\ \A id \in DOMAIN tasks : tasks[id].req # r) =>
         req[r].callbacks > 0
    /\ (req[r].failed # {} /\ req[r].callbacks > 0) =>
         \A p \in req[r].failed :
           req[r].neededSDFs[p].atlasIndex \notin Range(req[r].info.glyphAtlasIndices)

\* ---------------------------------------------------------------- C13
\* C13: once a request's callback has been called, every slot index in its
\* glyphAtlasIndices has been written into the atlas texture, whichever
\* request allocated the slot. (Written slots stay written, so a state
\* after the callback that lacks one shows the callback came too early.)
C13_IndicesWritten ==
  \A r \in Requests :
    req[r].callbacks > 0 =>
      \A i \in 1..Len(req[r].info.glyphAtlasIndices) :
        req[r].info.glyphAtlasIndices[i] \in Written(req[r].atlasKey)

\* ---------------------------------------------------------------- C14
\* C14: whatever the order in which tasks complete, every written slot s
\* holds the output of the SDF generator for the path and sdfViewBox of the
\* glyph entry whose atlasIndex is s, and every written slot is the slot of
\* exactly one glyph entry.
C14_ResultCorrelation ==
  \A key \in DOMAIN atlases :
    /\ \A s \in Written(key) :
         Cardinality({g \in DOMAIN atlases[key].glyphs :
                        atlases[key].glyphs[g].atlasIndex = s}) = 1
    /\ \A g \in DOMAIN atlases[key].glyphs :
         LET entry == atlases[key].glyphs[g]
             sdf == SdfOf(entry, GlyphSize(key), CONFIG.sdfExponent)
         IN entry.atlasIndex \in Written(key) =>
              /\ hist.written[key][entry.atlasIndex] = sdf
              /\ ReadSlot(Image(key), GlyphSize(key), entry.atlasIndex) = sdf

\* One request delivered with both of its slots written; the other, on the
\* other atlas, holds the result of its second task while its first task,
\* dispatched earlier to another lane, is still running.
C14_Witness ==
  \E r1, r2 \in Requests :
    /\ req[r1].pc = "done"
    /\ Len(req[r1].neededSDFs) = 2
    /\ {req[r1].neededSDFs[i].atlasIndex : i \in 1..2} \subseteq Written(req[r1].atlasKey)
    /\ req[r2].pc = "rasterizing"
    /\ Len(req[r2].neededSDFs) = 2
    /\ req[r2].sdfResults[1] = NoResult
    /\ req[r2].sdfResults[2] # NoResult

\* ---------------------------------------------------------------- C15
\* C15: in every state every lane's counter is at least 0, at most one idle
\* timer is pending on a lane, a timer is pending only while the lane's
\* counter is 0, and a lane with a counter above 0 has its worker; no step
\* terminates the worker of a lane whose counter is above 0.
C15_LaneState ==
  \A lane \in Lanes :
    IF lane \in DOMAIN threads
    THEN /\ threads[lane].requests >= 0
         /\ timers[lane] \in {0, 1}
         /\ timers[lane] = 1 => threads[lane].requests = 0
         /\ threads[lane].requests > 0 => lane \in workers
    ELSE timers[lane] = 0 /\ lane \notin workers

C15_TerminationStep ==
  \A lane \in workers :
    lane \notin workers' => (threads[lane].requests = 0 /\ threads'[lane].requests = 0)

C15_NoTeardownWhileBusy == []C15_LaneState /\ [][C15_TerminationStep]_vars

\* One lane idle with its timer pending and its worker alive, while another
\* lane has two requests pending.
C15_Witness ==
  \E l1, l2 \in DOMAIN threads :
    /\ threads[l1].requests = 0
    /\ timers[l1] = 1
    /\ l1 \in workers
    /\ threads[l2].requests = 2
    /\ timers[l2] = 0

\* ---------------------------------------------------------------- C16
\* C16: the k-th call of generateSDFInWorker, counted from 0 over all
\* requests, goes to lane k mod 4 whatever the lanes' counters are; any 4
\* consecutive calls go to 4 different lanes; and no lane other than the 4
\* is ever created.
C16_RoundRobin ==
  /\ Len(hist.lanes) = callNum
  /\ \A k \in 0..(callNum - 1) : hist.lanes[k + 1] = k % 4
  /\ \A k \in 0..(callNum - 4) :
       Cardinality({hist.lanes[k + 1 + d] : d \in 0..3}) = 4
  /\ \A id \in DOMAIN tasks : tasks[id].lane = id % 4
  /\ DOMAIN threads \subseteq 0..3
  /\ workers \subseteq DOMAIN threads

\* The sixth call has gone to lane 1, which still had a request pending,
\* while lane 0 was idle.
C16_Witness ==
  /\ callNum >= 6
  /\ 5 \in DOMAIN tasks
  /\ 1 \in DOMAIN tasks
  /\ threads[1].requests = 2
  /\ threads[0].requests = 0

\* ---------------------------------------------------------------- C17
\* A step in which the buffer of atlas key grows.
Grows(key) ==
  /\ key \in DOMAIN atlases
  /\ Len(atlases'[key].sdfTexture.image.data) > Len(Image(key).data)

\* C17 as stated: in every step that grows an atlas buffer the height stays
\* at sdfGlyphSize and the width is multiplied as the buffer is.
C17_WidthDoubles ==
  [][\A key \in DOMAIN atlases :
       Grows(key) =>
         LET after == atlases'[key].sdfTexture.image
         IN /\ after.height = GlyphSize(key)
            /\ after.width * Len(Image(key).data)
                 = Image(key).width * Len(after.data)]_vars

\* C17 amended: in every step that grows an atlas buffer the width stays as
\* it was and the height is multiplied as the buffer is, once by 2 for each
\* doubling; in every state width * height * 4 is the buffer's length, and
\* the height is sdfGlyphSize times a power of two.
C17_GrowthStep ==
  \A key \in DOMAIN atlases :
    Grows(key) =>
      LET after == atlases'[key].sdfTexture.image
      IN /\ after.width = Image(key).width
         /\ after.height * Len(Image(key).data)
              = Image(key).height * Len(after.data)
         /\ IsDoublingOf(Len(after.data), 2 * Len(Image(key).data))

C17_Shape ==
  \A key \in DOMAIN atlases :
    /\ Image(key).width * Image(key).height * 4 = Len(Image(key).data)
    /\ Image(key).width = CONFIG.textureWidth
    /\ IsDoublingOf(Image(key).height, GlyphSize(key))

C17_HeightDoubles == []C17_Shape /\ [][C17_GrowthStep]_vars

\* A buffer grown twice: slot 8 written, the height four times sdfGlyphSize,
\* the width as configured.
C17_Witness ==
  \E key \in DOMAIN atlases :
    /\ 8 \in Written(key)
    /\ Image(key).height = 4 * GlyphSize(key)
    /\ Image(key).width = CONFIG.textureWidth

\* ---------------------------------------------------------------- C18
\* The requests on atlas key whose merge and callback run in the step.
MergedOn(key) ==
  {r \in Requests : /\ req'[r].callbacks > req[r].callbacks
                    /\ req'[r].atlasKey = key}

\* C18: in every step, the needsUpdate flag of an atlas is set if and only
\* if the step is the merge of a request that writes at least one slot of
\* that atlas; the merge of a request whose glyphs were all cached already
\* changes no byte of the buffer, does not grow it and does not set the flag.
C18_FlagStep ==
  \A key \in DOMAIN atlases :
    LET flagSet == hist'.flagSets[key] > hist.flagSets[key]
        wrote == DOMAIN hist'.written[key] # Written(key)
        before == atlases[key].sdfTexture
        after == atlases'[key].sdfTexture
    IN /\ flagSet <=> (MergedOn(key) # {} /\ wrote)
       /\ flagSet => after.needsUpdate
       /\ ~flagSet => after.needsUpdate = before.needsUpdate
       /\ \A r \in MergedOn(key) :
            req'[r].neededSDFs = <<>> =>
              /\ after.image.data = before.image.data
              /\ after.image.height = before.image.height
              /\ after = before
              /\ ~flagSet
       /\ wrote => MergedOn(key) # {}

C18_FlagAndWrites ==
  \A key \in DOMAIN atlases :
    atlases[key].sdfTexture.needsUpdate <=> Written(key) # {}

C18_UpdatedFlag == [][C18_FlagStep]_vars /\ []C18_FlagAndWrites

\* Two requests done on one atlas: one wrote its slots, the other, with a
\* glyph in its text, found every glyph cached; the flag was set once.
C18_Witness ==
  \E r1, r2 \in Requests :
    /\ req[r1].pc = "done" /\ req[r2].pc = "done"
    /\ req[r1].atlasKey = req[r2].atlasKey
    /\ Len(req[r1].neededSDFs) > 0
    /\ req[r2].neededSDFs = <<>>
    /\ Len(req[r2].info.glyphAtlasIndices) > 0
    /\ hist.flagSets[req[r1].atlasKey] = 1
    /\ atlases[req[r1].atlasKey].sdfTexture.needsUpdate

\* ---------------------------------------------------------------- C19
\* C19: when the typesetter answers and every SDF task completes, every
\* request issued gets its callback invoked eventually, and no request's
\* callback is invoked more than once, whatever other requests and idle
\* timers do in between.
C19_AtMostOnce ==
  \A r \in Requests :
    /\ req[r].callbacks <= 1
    /\ req[r].callbacks = 1 <=> req[r].pc = "done"

C19_CallbackStep ==
  \A r \in Requests :
    /\ req'[r].callbacks >= req[r].callbacks
    /\ req[r].pc = "done" => req'[r] = req[r]

C19_Eventually ==
  \A r \in Requests : (req[r].pc # "idle") ~> (req[r].callbacks = 1)

C19_CallbackOnce ==
  /\ []C19_AtMostOnce
  /\ [][C19_CallbackStep]_vars
  /\ C19_Eventually

\* A request with two tasks has been called back after an idle timer went
\* off on some lane, while the other request is still rasterizing.
C19_Witness ==
  \E r1, r2 \in Requests :
    /\ req[r1].callbacks = 1
    /\ Len(req[r1].neededSDFs) = 2
    /\ req[r2].pc = "rasterizing"
    /\ \E lane \in DOMAIN threads : threads[lane].idleTimer = "fired"

\* ---------------------------------------------------------------- C20
\* C20: every byte index the copy loops store to while merging a slot is
\* below the length of the buffer as the growth loop for that slot has left
\* it, for every slot index, every order of merging and every textureWidth
\* and sdfGlyphSize that are powers of two with sdfGlyphSize <= textureWidth:
\* a buffer that holds (s + 1) * sdfGlyphSize^2 bytes holds the last byte of
\* the packing address of slot s.
C20_WritesInBounds ==
  \A i \in 1..Len(hist.lastWrites) :
    LET w == hist.lastWrites[i]
        G == GlyphSize(hist.lastKey)
    IN /\ w.lenAfter >= (w.atlasIndex + 1) * G * G
       /\ Cardinality(w.indices) = G * G
       /\ \A j \in w.indices : 0 <= j /\ j < w.lenAfter
       /\ ReadSlot(Image(hist.lastKey), G, w.atlasIndex)
            = hist.written[hist.lastKey][w.atlasIndex]

\* In a texture two squares wide, slot 15, the last of the buffer once it
\* has doubled, is merged before slot 0: its last byte is the last of the
\* buffer.
C20_Witness ==
  /\ hist.lastKey \in DOMAIN atlases
  /\ GlyphSize(hist.lastKey) = 2
  /\ Image(hist.lastKey).width = 4
  /\ Len(hist.lastWrites) = 1
  /\ hist.lastWrites[1].atlasIndex = 0
  /\ Written(hist.lastKey) = {0, 15}
  /\ Len(Image(hist.lastKey).data) = 2 * InitialLen(hist.lastKey)
  /\ Len(Image(hist.lastKey).data) - 1 \in SlotBytes(4, 2, 15)

====
